---------------------------- MODULE Spec2Model ----------------------------
(***************************************************************************)
(* Tensor-parallel loading and forward pass of the Shell flash-attention   *)
(* model (flash_shell.py, custom_modeling/flash_shell_modeling.py).        *)
(*                                                                         *)
(* Three specifications share the module:                                  *)
(*   SpecLoad  every rank of a process group constructs FlashShellAttention*)
(*             (load_attention, _load_attention, load_row, head mapping);  *)
(*   SpecFwd   one shard serves prefill/decode calls against a paged cache;*)
(*   SpecColl  all shards run FlashShell.__init__ and FlashShellModel      *)
(*             forward calls, meeting at the blocking collectives.         *)
(***************************************************************************)
EXTENDS Integers, Sequences, FiniteSets, TLC

VARIABLES
    config,             \* the configuration record handed to the model
    world_size,         \* weights.process_group.size()
    num_hidden_layers,  \* config.num_hidden_layers
    attn,               \* rank -> the FlashShellAttention object built on that rank
    seq_len,            \* serving loop: sequence -> tokens it has in the cache
    key_cache,          \* layer -> slot -> cached key      (kv_cache[i][0])
    value_cache,        \* layer -> slot -> cached value    (kv_cache[i][1])
    call,               \* the arguments of the forward call in progress
    layer,              \* FlashShellModel.forward: index of the layer running
    fpc,                \* FlashShellAttention.forward: the statement to run next
    trace,              \* the operations this attention forward has performed
    qkv,                \* the projected query, key and value of the batch
    attended,           \* batch row -> the (key, value) pairs its attention read
    requests,           \* the forward calls the router sends to every shard
    ppc,                \* rank -> the statement that shard process runs next
    waiting,            \* rank -> whether the shard is blocked inside a collective
    lyr,                \* rank -> FlashShellModel.forward: its layer index
    served,             \* rank -> forward calls the shard has completed
    issued              \* rank -> the collectives the shard has entered, in order

loadVars == <<config, world_size, num_hidden_layers, attn>>

fwdVars ==
    <<seq_len, key_cache, value_cache, call, layer, fpc, trace, qkv, attended>>

collVars == <<requests, ppc, waiting, lyr, served, issued>>

vars == <<loadVars, fwdVars, collVars>>

(***************************************************************************)
(* Bounds of the model.                                                    *)
(***************************************************************************)
MaxHeads == 10
MaxHeadSize == 2
MaxWorld == 3
MaxLayers == 2
MaxCalls == 2
MaxSeqs == 2
MaxLen == 3
MaxPrefill == 2
BlockSize == 2

(***************************************************************************)
(* Python values.                                                          *)
(***************************************************************************)
Quantizations == {"none", "gptq"}

Min(a, b) == IF a < b THEN a ELSE b

RECURSIVE Flatten(_)
Flatten(ts) == IF ts = <<>> THEN <<>> ELSE Head(ts) \o Flatten(Tail(ts))

(***************************************************************************)
(* Tensors.  A 2-D tensor is a sequence of rows, a 1-D tensor a sequence   *)
(* of entries.  The entry of the logical fused projection that maps input  *)
(* feature i to output feature o carries the label o * in_features + i, so *)
(* two tensors are equal exactly when they hold the same entries in the    *)
(* same places.                                                            *)
(***************************************************************************)
Rows(t) == Len(t)

Cols(t) == IF Len(t) = 0 THEN 0 ELSE Len(t[1])

\* t[start:stop]
SliceDim0(t, start, stop) == SubSeq(t, start + 1, Min(stop, Len(t)))

\* t[:, start:stop]
SliceDim1(t, start, stop) ==
    [r \in 1..Len(t) |-> SubSeq(t[r], start + 1, Min(stop, Len(t[r])))]

\* torch.cat(ts, dim=0) of 2-D tensors needs equal sizes along dim 1
CatDim0Fits(ts) == \A a, b \in 1..Len(ts) : Cols(ts[a]) = Cols(ts[b])

\* torch.cat(ts, dim=0)
CatDim0(ts) == Flatten(ts)


(***************************************************************************)
(* The weight source (weights._get_slice): the fused c_attn tensor as the  *)
(* checkpoint stores it.  Its output features are laid out as              *)
(* [query | key | value]; a GPT2-style checkpoint (config.transpose)       *)
(* stores it as (in_features, out_features), any other as                  *)
(* (out_features, in_features).                                            *)
(***************************************************************************)
HeadSize(cfg) == cfg.hidden_size \div cfg.num_attention_heads

QSize(cfg) == cfg.num_attention_heads * HeadSize(cfg)

KvSize(cfg) == cfg.num_key_value_heads * HeadSize(cfg)

OutFeatures(cfg) == QSize(cfg) + 2 * KvSize(cfg)

Entry(cfg, o, i) == o * cfg.hidden_size + i

DiskWeight(cfg) ==
    IF cfg.transpose
    THEN [i \in 1..cfg.hidden_size |->
            [o \in 1..OutFeatures(cfg) |-> Entry(cfg, o - 1, i - 1)]]
    ELSE [o \in 1..OutFeatures(cfg) |->
            [i \in 1..cfg.hidden_size |-> Entry(cfg, o - 1, i - 1)]]

DiskBias(cfg) == [o \in 1..OutFeatures(cfg) |-> o - 1]

(***************************************************************************)
(* _load_attention: the slice bounds of rank `rank`.                       *)
(***************************************************************************)
QStart(q_size, kv_size, ws, rank) == rank * (q_size \div ws)

QStop(q_size, kv_size, ws, rank) == (rank + 1) * (q_size \div ws)

KStart(q_size, kv_size, ws, rank) == q_size + rank * (kv_size \div ws)

KStop(q_size, kv_size, ws, rank) == q_size + (rank + 1) * (kv_size \div ws)

VStartSameOffsetAsKey(q_size, kv_size, ws, rank) ==
    q_size + rank * (kv_size \div ws)

VStart(q_size, kv_size, ws, rank) ==
    (q_size + kv_size) + rank * (kv_size \div ws)

VStop(q_size, kv_size, ws, rank) ==
    (q_size + kv_size) + (rank + 1) * (kv_size \div ws)

\* The three slices of the 2-D weight, along the axis the layout selects.
WeightSlices(cfg, ws, rank, q_size, kv_size) ==
    LET t == DiskWeight(cfg)
        qa == QStart(q_size, kv_size, ws, rank)
        qb == QStop(q_size, kv_size, ws, rank)
        ka == KStart(q_size, kv_size, ws, rank)
        kb == KStop(q_size, kv_size, ws, rank)
        va == VStart(q_size, kv_size, ws, rank)
        vb == VStop(q_size, kv_size, ws, rank)
    IN  IF cfg.transpose
        THEN <<SliceDim1(t, qa, qb), SliceDim1(t, ka, kb), SliceDim1(t, va, vb)>>
        ELSE <<SliceDim0(t, qa, qb), SliceDim0(t, ka, kb), SliceDim0(t, va, vb)>>

\* The three slices of the 1-D bias.
BiasSlices(cfg, ws, rank, q_size, kv_size) ==
    LET t == DiskBias(cfg)
    IN  << SliceDim0(t, QStart(q_size, kv_size, ws, rank),
                        QStop(q_size, kv_size, ws, rank)),
           SliceDim0(t, KStart(q_size, kv_size, ws, rank),
                        KStop(q_size, kv_size, ws, rank)),
           SliceDim0(t, VStart(q_size, kv_size, ws, rank),
                        VStop(q_size, kv_size, ws, rank)) >>

\* What an attribute holds before anything was assigned to it.
NoLinear == [loaded |-> FALSE, weight |-> <<>>, bias |-> <<>>, has_bias |-> FALSE]

\* _load_attention: [raised, linear]
LoadAttentionSharded(cfg, ws, rank, bias, q_size, kv_size) ==
    IF q_size % ws # 0 \/ kv_size % ws # 0
    THEN [raised |-> "AssertionError", linear |-> NoLinear]
    ELSE LET ws3 == WeightSlices(cfg, ws, rank, q_size, kv_size)
         IN  IF ~CatDim0Fits(ws3)
             THEN [raised |-> "RuntimeError", linear |-> NoLinear]
             ELSE [raised |-> "",
                   linear |->
                     [loaded |-> TRUE,
                      weight |-> CatDim0(ws3),
                      bias |-> IF bias
                               THEN Flatten(BiasSlices(cfg, ws, rank, q_size, kv_size))
                               ELSE <<>>,
                      has_bias |-> bias]]

\* load_attention: the gptq branch builds an exception and drops it, so the
\* function falls off its end and returns None.
LoadAttention(cfg, ws, rank, bias, q_size, kv_size) ==
    IF cfg.quantize = "gptq"
    THEN [raised |-> "", linear |-> NoLinear]
    ELSE LoadAttentionSharded(cfg, ws, rank, bias, q_size, kv_size)

(***************************************************************************)
(* load_row: the row-sharded output projection.  Its weight comes sharded  *)
(* from the weight source; the bias is attached on the first rank only.    *)
(***************************************************************************)
RowBiasOnEveryRank(bias, rank) == bias

RowBiasLoaded(bias, rank) == bias /\ rank = 0

LoadRow(cfg, ws, rank, bias) ==
    [loaded |-> TRUE, has_bias |-> RowBiasLoaded(bias, rank)]

NoRow == [loaded |-> FALSE, has_bias |-> FALSE]

(***************************************************************************)
(* torch.arange(0, n).repeat_interleave(g)                                 *)
(***************************************************************************)
Arange(n) == [k \in 1..n |-> k - 1]

RECURSIVE RepeatInterleave(_, _)
RepeatInterleave(s, g) ==
    IF s = <<>> THEN <<>>
    ELSE [k \in 1..g |-> Head(s)] \o RepeatInterleave(Tail(s), g)

(***************************************************************************)
(* FlashShellAttention.__init__ on rank `rank` of a group of `ws`.         *)
(***************************************************************************)
Unconstructed ==
    [status |-> "unconstructed", head_size |-> 0, num_heads |-> 0,
     num_key_value_heads |-> 0, query_key_value |-> NoLinear, o_proj |-> NoRow,
     num_groups |-> 0, kv_head_mapping |-> <<>>]

Failed(error) == [Unconstructed EXCEPT !.status = error]

AttentionInit(cfg, ws, rank) ==
    LET head_size == HeadSize(cfg)
        num_heads == cfg.num_attention_heads \div ws
        num_key_value_heads == cfg.num_key_value_heads \div ws
        q_size == cfg.num_attention_heads * head_size
        kv_size == cfg.num_key_value_heads * head_size
        query_key_value == LoadAttention(cfg, ws, rank, TRUE, q_size, kv_size)
    IN  IF cfg.num_attention_heads % ws # 0 THEN Failed("ValueError")
        ELSE IF query_key_value.raised # "" THEN Failed(query_key_value.raised)
        ELSE IF num_key_value_heads = 0 THEN Failed("ZeroDivisionError")
        ELSE LET num_groups == num_heads \div num_key_value_heads
             IN  [status |-> "constructed",
                  head_size |-> head_size,
                  num_heads |-> num_heads,
                  num_key_value_heads |-> num_key_value_heads,
                  query_key_value |-> query_key_value.linear,
                  o_proj |-> LoadRow(cfg, ws, rank, TRUE),
                  num_groups |-> num_groups,
                  kv_head_mapping |->
                      RepeatInterleave(Arange(num_key_value_heads), num_groups)]

(***************************************************************************)
(* SpecLoad: every rank of the group constructs its attention object from  *)
(* the same configuration.                                                 *)
(***************************************************************************)
Ranks == 0..(world_size - 1)

\* The checkpoints' configurations: grouped-query models, whose key/value
\* heads divide the attention heads, in either layout, with or without gptq.
Configs ==
    {c \in [num_attention_heads : 1..MaxHeads,
            num_key_value_heads : 1..MaxHeads,
            head_dim : 1..MaxHeadSize,
            quantize : Quantizations,
            transpose : BOOLEAN] :
        c.num_attention_heads % c.num_key_value_heads = 0}

\* hidden_size is num_attention_heads times the width of one head
MakeConfig(c) ==
    [num_attention_heads |-> c.num_attention_heads,
     num_key_value_heads |-> c.num_key_value_heads,
     hidden_size |-> c.num_attention_heads * c.head_dim,
     quantize |-> c.quantize,
     transpose |-> c.transpose]

\* no forward call is in progress and nothing is cached
NoCall ==
    [has_cu |-> FALSE, cu_seqlen_prefill |-> <<>>, tokens |-> <<>>,
     slots |-> <<>>, block_tables |-> <<>>, input_lengths |-> <<>>]

NoForward ==
    /\ seq_len = <<>>
    /\ key_cache = <<>>
    /\ value_cache = <<>>
    /\ call = NoCall
    /\ layer = 0
    /\ fpc = "idle"
    /\ trace = <<>>
    /\ qkv = <<>>
    /\ attended = <<>>

\* no shard process is running
NoShards ==
    /\ requests = <<>>
    /\ ppc = <<>>
    /\ waiting = <<>>
    /\ lyr = <<>>
    /\ served = <<>>
    /\ issued = <<>>

InitLoad ==
    /\ NoShards
    /\ world_size \in 1..MaxWorld
    /\ \E c \in Configs : config = MakeConfig(c)
    /\ num_hidden_layers = 1
    /\ attn = [r \in Ranks |-> Unconstructed]
    /\ NoForward

Construct(r) ==
    /\ attn[r].status = "unconstructed"
    /\ attn' = [attn EXCEPT ![r] = AttentionInit(config, world_size, r)]
    /\ UNCHANGED <<config, world_size, num_hidden_layers, fwdVars, collVars>>

NextLoad == \E r \in Ranks : Construct(r)

SpecLoad == InitLoad /\ [][NextLoad]_vars


(***************************************************************************)
(* Properties of SpecLoad.                                                 *)
(***************************************************************************)
Constructed(r) == attn[r].status = "constructed"

Loaded(r) == Constructed(r) /\ attn[r].query_key_value.loaded

AllLoaded == \A r \in Ranks : Loaded(r)

QBlock == QSize(config) \div world_size

KvBlock == KvSize(config) \div world_size

\* rows [a, b) of the checkpoint's fused tensor (0-based, as the spec writes them)
FusedRows(a, b) == [k \in 1..(b - a) |-> DiskWeight(config)[a + k]]

ShardQ(r) == SubSeq(attn[r].query_key_value.weight, 1, QBlock)

ShardK(r) == SubSeq(attn[r].query_key_value.weight, QBlock + 1, QBlock + KvBlock)

ShardV(r) ==
    SubSeq(attn[r].query_key_value.weight, QBlock + KvBlock + 1, QBlock + 2 * KvBlock)

\* the ranks' parts concatenated in rank order
RECURSIVE OverRanks(_, _)
OverRanks(part, r) ==
    IF r >= world_size THEN <<>> ELSE part[r] \o OverRanks(part, r + 1)

\* the places (rank, row) of the shards that hold row o of the fused tensor
Takers(o) ==
    {p \in {<<r, k>> : r \in Ranks, k \in 1..(QBlock + 2 * KvBlock)} :
        /\ p[2] <= Len(attn[p[1]].query_key_value.weight)
        /\ attn[p[1]].query_key_value.weight[p[2]] = DiskWeight(config)[o]}

\* C1: in the non-transposed layout the shard of rank r is rows
\* [r*q_block, (r+1)*q_block) of the query segment, then rows
\* [q_size + r*kv_block, ...) of the key segment, then rows
\* [q_size + kv_size + r*kv_block, ...) of the value segment; once every rank
\* has loaded, every row of the fused tensor is held by exactly one rank and
\* the ranks' query, key and value slices, concatenated segment by segment,
\* are the unsharded weight.
C1_ShardsPartitionFusedWeight ==
    ~config.transpose =>
        /\ \A r \in Ranks : Loaded(r) =>
              attn[r].query_key_value.weight =
                  FusedRows(r * QBlock, (r + 1) * QBlock)
                  \o FusedRows(QSize(config) + r * KvBlock,
                               QSize(config) + (r + 1) * KvBlock)
                  \o FusedRows(QSize(config) + KvSize(config) + r * KvBlock,
                               QSize(config) + KvSize(config) + (r + 1) * KvBlock)
        /\ AllLoaded =>
              /\ \A o \in 1..OutFeatures(config) : Cardinality(Takers(o)) = 1
              /\ OverRanks([r \in Ranks |-> ShardQ(r)], 0)
                 \o OverRanks([r \in Ranks |-> ShardK(r)], 0)
                 \o OverRanks([r \in Ranks |-> ShardV(r)], 0)
                    = DiskWeight(config)

C1_Witness ==
    /\ ~config.transpose
    /\ world_size = 2
    /\ config.num_attention_heads = 4
    /\ config.num_key_value_heads = 2
    /\ config.hidden_size = 8
    /\ AllLoaded

\* the projection matrix (out_features x in_features) a shard must apply:
\* its query, key and value output rows of the logical weight, in that order
LogicalRows(a, b) ==
    [k \in 1..(b - a) |->
        [i \in 1..config.hidden_size |-> Entry(config, a + k - 1, i - 1)]]

LogicalShard(r) ==
    LogicalRows(r * QBlock, (r + 1) * QBlock)
    \o LogicalRows(QSize(config) + r * KvBlock, QSize(config) + (r + 1) * KvBlock)
    \o LogicalRows(QSize(config) + KvSize(config) + r * KvBlock,
                   QSize(config) + KvSize(config) + (r + 1) * KvBlock)

\* C2 as claimed: in either layout the shard's fused weight has q_block +
\* 2*kv_block entries along the projection-output axis and the full
\* reduction width along the other, and is the same logical per-shard
\* projection (query, key, value order); the bias is sliced the same way.
C2_LayoutOnlySelectsAxis ==
    \A r \in Ranks : Loaded(r) =>
        /\ Rows(attn[r].query_key_value.weight) = QBlock + 2 * KvBlock
        /\ Cols(attn[r].query_key_value.weight) = config.hidden_size
        /\ attn[r].query_key_value.weight = LogicalShard(r)
        /\ Len(attn[r].query_key_value.bias) = QBlock + 2 * KvBlock

WorldDividesSizes ==
    /\ config.num_attention_heads % world_size = 0
    /\ QSize(config) % world_size = 0
    /\ KvSize(config) % world_size = 0

\* C3 as claimed: when world_size does not evenly divide num_attention_heads,
\* q_size or kv_size, construction fails on every rank: no constructed
\* attention object exists.
C3_IndivisibleNeverConstructed ==
    ~WorldDividesSizes => \A r \in Ranks : ~Constructed(r)

\* C4 as claimed: with config.quantize = "gptq" the load of the fused
\* attention weight raises, so no attention object is ever constructed.
C4_GptqNeverConstructed ==
    config.quantize = "gptq" => \A r \in Ranks : ~Constructed(r)

AllConstructed == \A r \in Ranks : Constructed(r)

\* what the all-reduce sum of the shards' output projections adds of the bias
ReducedBiasCopies == Cardinality({r \in Ranks : attn[r].o_proj.has_bias})

\* C5: the output projection carries its bias on rank 0 and on no other
\* rank, so the sum over all shards holds the bias exactly once.
C5_RowBiasOnce ==
    /\ \A r \in Ranks : Constructed(r) => (attn[r].o_proj.has_bias <=> r = 0)
    /\ AllConstructed => ReducedBiasCopies = 1

C5_Witness == world_size = 3 /\ AllConstructed

\* C6 as claimed: with g = num_heads / num_kv_heads (per shard) every query
\* head h in 0..num_heads-1 is mapped to key/value head h div g.
C6_EveryHeadMapped ==
    \A r \in Ranks : Loaded(r) =>
        /\ attn[r].num_groups >= 1
        /\ \A h \in 0..(attn[r].num_heads - 1) :
              /\ h + 1 \in DOMAIN attn[r].kv_head_mapping
              /\ attn[r].kv_head_mapping[h + 1] = h \div attn[r].num_groups

\* The schedule the constructor does build on every rank: kv_head_mapping
\* has num_kv_heads * g entries, g the floor of num_heads / num_kv_heads
\* (per shard), and entry h is h div g.
RepeatInterleaveSchedule ==
    \A r \in Ranks : Constructed(r) =>
        LET a == attn[r]
            g == a.num_groups
            m == a.kv_head_mapping
        IN  /\ g = a.num_heads \div a.num_key_value_heads
            /\ Len(m) = a.num_key_value_heads * g
            /\ \A h \in 0..(Len(m) - 1) : m[h + 1] = h \div g
            /\ (a.num_heads = 8 /\ a.num_key_value_heads = 2)
                  => m = <<0, 0, 0, 0, 1, 1, 1, 1>>

\* C10 as claimed: on every constructed rank the per-shard head counts
\* reconstruct the configured ones, the shard has at least one key/value
\* head and the global group size, and the widths forward splits the
\* projection into add up to the output width of the loaded fused weight.
C10_HeadCountsReconstruct ==
    \A r \in Ranks : Constructed(r) =>
        LET a == attn[r]
        IN  /\ a.num_heads * world_size = config.num_attention_heads
            /\ a.num_key_value_heads * world_size = config.num_key_value_heads
            /\ a.num_key_value_heads >= 1
            /\ a.num_groups * config.num_key_value_heads
                  = config.num_attention_heads
            /\ (a.query_key_value.loaded /\ ~config.transpose) =>
                  /\ Rows(a.query_key_value.weight) = QBlock + 2 * KvBlock
                  /\ a.head_size * a.num_heads
                       + 2 * a.head_size * a.num_key_value_heads
                     = Rows(a.query_key_value.weight)


(***************************************************************************)
(* SpecFwd: the shard of rank 0 serves forward calls.  The serving loop    *)
(* hands it prefill calls (cu_seqlen_prefill given) and decode calls       *)
(* (cu_seqlen_prefill None) over a paged cache it addresses by slot.       *)
(***************************************************************************)
Seqs == 1..MaxSeqs

BlocksPerSeq == (MaxLen + BlockSize - 1) \div BlockSize

NumSlots == MaxSeqs * BlocksPerSeq * BlockSize

\* the blocks the allocator gave sequence s (interleaved with the others')
BlockTable(s) == [b \in 1..BlocksPerSeq |-> (b - 1) * MaxSeqs + (s - 1)]

SlotOf(block_table, p) ==
    block_table[(p \div BlockSize) + 1] * BlockSize + (p % BlockSize)

\* the tensors of one token at one layer
Q(l, tok, rot) == [layer |-> l, seq |-> tok.seq, pos |-> tok.pos, rot |-> rot]

K(l, tok, rot) == [layer |-> l, seq |-> tok.seq, pos |-> tok.pos, rot |-> rot]

V(l, tok) == [layer |-> l, seq |-> tok.seq, pos |-> tok.pos]

EmptyKey == [layer |-> 0, seq |-> 0, pos |-> 0, rot |-> FALSE]

EmptyValue == [layer |-> 0, seq |-> 0, pos |-> 0]

\* the flattened batch: for each sequence of S in order, n[s] tokens from
\* position from[s] on
RECURSIVE BatchTokens(_, _, _, _)
BatchTokens(S, n, from, s) ==
    IF s > MaxSeqs THEN <<>>
    ELSE (IF s \in S
          THEN [k \in 1..n[s] |-> [seq |-> s, pos |-> from[s] + k - 1]]
          ELSE <<>>) \o BatchTokens(S, n, from, s + 1)

\* one row per sequence of S, in order: row[s]
RECURSIVE BatchRows(_, _, _)
BatchRows(S, row, s) ==
    IF s > MaxSeqs THEN <<>>
    ELSE (IF s \in S THEN <<row[s]>> ELSE <<>>) \o BatchRows(S, row, s + 1)

RECURSIVE Cumulative(_, _)
Cumulative(lengths, acc) ==
    IF lengths = <<>> THEN <<acc>>
    ELSE <<acc>> \o Cumulative(Tail(lengths), acc + Head(lengths))

MakeCall(prefill, S, n) ==
    LET tokens == BatchTokens(S, n, seq_len, 1)
        lengths == BatchRows(S, [s \in Seqs |-> seq_len[s] + n[s]], 1)
    IN  [has_cu |-> prefill,
         cu_seqlen_prefill |->
             IF prefill THEN Cumulative(BatchRows(S, n, 1), 0) ELSE <<>>,
         tokens |-> tokens,
         slots |-> [t \in 1..Len(tokens) |->
                       SlotOf(BlockTable(tokens[t].seq), tokens[t].pos)],
         block_tables |-> BatchRows(S, [s \in Seqs |-> BlockTable(s)], 1),
         input_lengths |-> lengths]

\* FlashShellAttention.forward: the statement that follows each statement
AfterStepAttentionBeforeWrite(step) ==
    CASE step = "qkv" -> "rotary"
      [] step = "rotary" -> "attention"
      [] step = "attention" -> "cache_write"
      [] step = "cache_write" -> "o_proj"
      [] OTHER -> "returned"

AfterStep(step) ==
    CASE step = "qkv" -> "rotary"
      [] step = "rotary" -> "cache_write"
      [] step = "cache_write" -> "attention"
      [] step = "attention" -> "o_proj"
      [] OTHER -> "returned"

\* the branch forward takes: prefill iff cu_seqlen_prefill is not None
PrefillPathByBatchSize(c) == Len(c.tokens) > Len(c.input_lengths)

PrefillPath(c) == c.has_cu

\* F.linear(hidden_states, weight, bias): the weight must be
\* (out_features, hidden_size) and the bias as long as out_features
LinearFits(linear, hidden_size) ==
    /\ Cols(linear.weight) = hidden_size
    /\ linear.has_bias => Len(linear.bias) = Rows(linear.weight)

\* qkv.split([head_size * num_heads, 2 * head_size * num_key_value_heads], dim=1)
SplitFits(a) ==
    a.head_size * a.num_heads + 2 * a.head_size * a.num_key_value_heads
        = Rows(a.query_key_value.weight)

\* the first statements of forward: calling query_key_value (None when the
\* load returned nothing) and splitting its output
QKVOutcome(a, hidden_size) ==
    IF ~a.query_key_value.loaded THEN "TypeError"
    ELSE IF ~LinearFits(a.query_key_value, hidden_size) \/ ~SplitFits(a)
    THEN "RuntimeError"
    ELSE "ok"

\* paged_attention.reshape_and_cache(values, cache, slots)
ReshapeAndCache(cache, values, slots) ==
    [x \in DOMAIN cache |->
        IF \E t \in 1..Len(slots) : slots[t] = x
        THEN values[CHOOSE t \in 1..Len(slots) : slots[t] = x]
        ELSE cache[x]]

\* flash_attn.attention: dense causal attention, each token over the tokens
\* of its own sequence up to itself, the sequences delimited by cu_seqlens
FlashAttention(keys, values, cu_seqlens) ==
    [t \in 1..Len(keys) |->
        LET j == CHOOSE i \in 1..(Len(cu_seqlens) - 1) :
                     cu_seqlens[i] < t /\ t <= cu_seqlens[i + 1]
        IN  {<<keys[u], values[u]>> : u \in (cu_seqlens[j] + 1)..t}]

\* paged_attention.attention: each row over the first input_lengths[row]
\* cache entries its block table addresses
PagedAttention(keys, values, block_tables, input_lengths) ==
    [j \in 1..Len(input_lengths) |->
        {<<keys[SlotOf(block_tables[j], p)], values[SlotOf(block_tables[j], p)]>> :
            p \in 0..(input_lengths[j] - 1)}]

\* the configurations served in SpecFwd
FwdConfigs ==
    {c \in Configs :
        c.num_attention_heads = 6 /\ c.num_key_value_heads = 3 /\ c.head_dim = 2}

InitFwd ==
    /\ NoShards
    /\ world_size \in 1..MaxWorld
    /\ \E c \in FwdConfigs : config = MakeConfig(c)
    /\ num_hidden_layers \in 1..MaxLayers
    /\ attn = [r \in Ranks |-> AttentionInit(config, world_size, r)]
    /\ attn[0].status = "constructed"
    /\ seq_len = [s \in Seqs |-> 0]
    /\ key_cache = [l \in 1..num_hidden_layers |-> [x \in 0..(NumSlots - 1) |-> EmptyKey]]
    /\ value_cache =
          [l \in 1..num_hidden_layers |-> [x \in 0..(NumSlots - 1) |-> EmptyValue]]
    /\ call = NoCall
    /\ layer = 0
    /\ fpc = "idle"
    /\ trace = <<>>
    /\ qkv = <<>>
    /\ attended = <<>>

\* the serving loop submits a prefill of new sequences
StartPrefill ==
    /\ fpc = "idle"
    /\ \E S \in SUBSET Seqs \ {{}} :
          /\ \A s \in S : seq_len[s] = 0
          /\ \E n \in [Seqs -> 1..MaxPrefill] : call' = MakeCall(TRUE, S, n)
    /\ layer' = 1
    /\ fpc' = "qkv"
    /\ UNCHANGED <<loadVars, collVars, seq_len, key_cache, value_cache, trace, qkv, attended>>

\* the serving loop submits a decode step: one new token per sequence
StartDecode ==
    /\ fpc = "idle"
    /\ \E S \in SUBSET Seqs \ {{}} :
          /\ \A s \in S : seq_len[s] < MaxLen
          /\ call' = MakeCall(FALSE, S, [s \in Seqs |-> 1])
    /\ layer' = 1
    /\ fpc' = "qkv"
    /\ UNCHANGED <<loadVars, collVars, seq_len, key_cache, value_cache, trace, qkv, attended>>

\* qkv = self.query_key_value(hidden_states); split; view
ProjectQKV ==
    /\ fpc = "qkv"
    /\ IF QKVOutcome(attn[0], config.hidden_size) # "ok"
       THEN fpc' = QKVOutcome(attn[0], config.hidden_size) /\ UNCHANGED <<trace, qkv>>
       ELSE /\ qkv' = [t \in 1..Len(call.tokens) |->
                         [query |-> Q(layer, call.tokens[t], FALSE),
                          key |-> K(layer, call.tokens[t], FALSE),
                          value |-> V(layer, call.tokens[t])]]
            /\ trace' = Append(trace, "qkv")
            /\ fpc' = AfterStep("qkv")
    /\ UNCHANGED <<loadVars, collVars, seq_len, key_cache, value_cache, call, layer, attended>>

\* self.rotary_emb(query, key, cos, sin), in place
Rotary ==
    /\ fpc = "rotary"
    /\ qkv' = [t \in 1..Len(qkv) |->
                  [qkv[t] EXCEPT !.query.rot = TRUE, !.key.rot = TRUE]]
    /\ trace' = Append(trace, "rotary")
    /\ fpc' = AfterStep("rotary")
    /\ UNCHANGED <<loadVars, collVars, seq_len, key_cache, value_cache, call, layer, attended>>

\* paged_attention.reshape_and_cache(kv[:, 0], kv[:, 1], kv_cache[0], kv_cache[1], slots)
CacheWrite ==
    /\ fpc = "cache_write"
    /\ key_cache' = [key_cache EXCEPT ![layer] =
          ReshapeAndCache(@, [t \in 1..Len(qkv) |-> qkv[t].key], call.slots)]
    /\ value_cache' = [value_cache EXCEPT ![layer] =
          ReshapeAndCache(@, [t \in 1..Len(qkv) |-> qkv[t].value], call.slots)]
    /\ trace' = Append(trace, "cache_write")
    /\ fpc' = AfterStep("cache_write")
    /\ UNCHANGED <<loadVars, collVars, seq_len, call, layer, qkv, attended>>

\* if cu_seqlen_prefill is not None: flash_attn.attention(...)
\* else: paged_attention.attention(...)
Attention ==
    /\ fpc = "attention"
    /\ IF PrefillPath(call)
       THEN /\ attended' = FlashAttention([t \in 1..Len(qkv) |-> qkv[t].key],
                                          [t \in 1..Len(qkv) |-> qkv[t].value],
                                          call.cu_seqlen_prefill)
            /\ trace' = Append(trace, "flash_attention")
       ELSE /\ attended' = PagedAttention(key_cache[layer], value_cache[layer],
                                          call.block_tables, call.input_lengths)
            /\ trace' = Append(trace, "paged_attention")
    /\ fpc' = AfterStep("attention")
    /\ UNCHANGED <<loadVars, collVars, seq_len, key_cache, value_cache, call, layer, qkv>>

\* return self.o_proj(attn_output.view(...))
OutputProjection ==
    /\ fpc = "o_proj"
    /\ trace' = Append(trace, "o_proj")
    /\ fpc' = AfterStep("o_proj")
    /\ UNCHANGED <<loadVars, collVars, seq_len, key_cache, value_cache, call, layer, qkv, attended>>

\* FlashShellModel.forward: the next layer runs on its own cache pair
NextLayer ==
    /\ fpc = "returned"
    /\ layer < num_hidden_layers
    /\ layer' = layer + 1
    /\ fpc' = "qkv"
    /\ trace' = <<>>
    /\ qkv' = <<>>
    /\ attended' = <<>>
    /\ UNCHANGED <<loadVars, collVars, seq_len, key_cache, value_cache, call>>

\* the model forward returns; the serving loop records the tokens now cached
Return ==
    /\ fpc = "returned"
    /\ layer = num_hidden_layers
    /\ seq_len' = [s \in Seqs |->
          IF \E t \in 1..Len(call.tokens) : call.tokens[t].seq = s
          THEN seq_len[s] + Cardinality({t \in 1..Len(call.tokens) : call.tokens[t].seq = s})
          ELSE seq_len[s]]
    /\ call' = NoCall
    /\ layer' = 0
    /\ fpc' = "idle"
    /\ trace' = <<>>
    /\ qkv' = <<>>
    /\ attended' = <<>>
    /\ UNCHANGED <<loadVars, collVars, key_cache, value_cache>>

NextFwd ==
    \/ StartPrefill
    \/ StartDecode
    \/ ProjectQKV
    \/ Rotary
    \/ CacheWrite
    \/ Attention
    \/ OutputProjection
    \/ NextLayer
    \/ Return

SpecFwd == InitFwd /\ [][NextFwd]_vars


(***************************************************************************)
(* Properties of SpecFwd.                                                  *)
(***************************************************************************)
\* the operations of one attention forward, in the order the spec gives them
CanonicalTrace ==
    <<"qkv", "rotary", "cache_write",
      IF call.cu_seqlen_prefill # <<>> THEN "flash_attention" ELSE "paged_attention",
      "o_proj">>

Count(seq, x) == Cardinality({k \in 1..Len(seq) : seq[k] = x})

\* C7: an attention forward performs, in this order, the QKV projection,
\* the rotary embedding, exactly one key/value write at the caller's slots,
\* exactly one attention computation and the output projection; the
\* attention is the flash (prefill) path iff cu_seqlen_prefill is given and
\* the paged (decode) path otherwise, never both, and the cache is written
\* on both paths with the rotated keys and the values of the call's tokens.
C7_ForwardOrderAndPath ==
    /\ trace = SubSeq(CanonicalTrace, 1, Len(trace))
    /\ fpc = "returned" => trace = CanonicalTrace
    /\ Count(trace, "flash_attention") + Count(trace, "paged_attention") <= 1
    /\ Count(trace, "flash_attention") = 1 => call.cu_seqlen_prefill # <<>>
    /\ Count(trace, "paged_attention") = 1 => call.cu_seqlen_prefill = <<>>
    /\ (Count(trace, "flash_attention") + Count(trace, "paged_attention") = 1) =>
          \A t \in 1..Len(call.tokens) :
              /\ key_cache[layer][call.slots[t]] = K(layer, call.tokens[t], TRUE)
              /\ value_cache[layer][call.slots[t]] = V(layer, call.tokens[t])

C7_WitnessPrefill ==
    /\ fpc = "returned"
    /\ call.cu_seqlen_prefill # <<>>
    /\ trace = <<"qkv", "rotary", "cache_write", "flash_attention", "o_proj">>

C7_Witness ==
    /\ fpc = "returned"
    /\ call.cu_seqlen_prefill = <<>>
    /\ Len(call.tokens) = 2
    /\ trace = <<"qkv", "rotary", "cache_write", "paged_attention", "o_proj">>

\* the key/value pairs of tokens 0..last of sequence s at layer l
SequenceKV(l, s, last) ==
    {<<K(l, [seq |-> s, pos |-> u], TRUE), V(l, [seq |-> s, pos |-> u])>> :
        u \in 0..last}

AttentionDone ==
    Count(trace, "flash_attention") + Count(trace, "paged_attention") = 1

\* C8: the decode attention of a sequence of current length L reads exactly
\* the key/value entries of that sequence's tokens 0..L-1 (those cached by
\* the prefill and earlier decodes and the one this call wrote before
\* reading), and nothing of another sequence or layer; the prefill attention
\* of a token reads its own sequence up to itself; so for a one-token
\* sequence the decode path over the single cached token reads the same
\* single key/value as the prefill path over that token with an empty cache.
C8_DecodeReadsOwnSequence ==
    AttentionDone =>
        /\ DOMAIN attended = 1..Len(call.tokens)
        /\ \A t \in 1..Len(call.tokens) :
              attended[t] = SequenceKV(layer, call.tokens[t].seq, call.tokens[t].pos)
        /\ call.cu_seqlen_prefill = <<>> =>
              \A j \in 1..Len(call.input_lengths) :
                  /\ call.tokens[j].pos = call.input_lengths[j] - 1
                  /\ Cardinality(attended[j]) = call.input_lengths[j]
                  /\ call.input_lengths[j] = 1 =>
                        attended[j] =
                            FlashAttention(<<qkv[j].key>>, <<qkv[j].value>>, <<0, 1>>)[1]

C8_Witness ==
    /\ AttentionDone
    /\ call.cu_seqlen_prefill = <<>>
    /\ layer = 2
    /\ \E j \in 1..Len(call.input_lengths) :
          /\ call.input_lengths[j] = 3
          /\ \E s \in Seqs : s # call.tokens[j].seq /\ seq_len[s] >= 2

C8_WitnessSingleToken ==
    /\ AttentionDone
    /\ call.cu_seqlen_prefill = <<>>
    /\ \E j \in 1..Len(call.input_lengths) : call.input_lengths[j] = 1


(***************************************************************************)
(* SpecColl: world_size shard processes run FlashShell.__init__ and then   *)
(* the forward calls the router sends to all of them.  A collective (a     *)
(* barrier or an all-reduce) blocks a shard until every shard of the group *)
(* has entered its collective of the same index.                           *)
(***************************************************************************)
CallKinds == {"prefill", "decode"}

RequestLists == UNION {[1..n -> CallKinds] : n \in 1..MaxCalls}

InitColl ==
    /\ world_size \in 1..MaxWorld
    /\ \E c \in FwdConfigs : config = MakeConfig(c)
    /\ num_hidden_layers \in 1..MaxLayers
    /\ attn = [r \in Ranks |-> Unconstructed]
    /\ NoForward
    /\ requests \in RequestLists
    /\ ppc = [r \in Ranks |-> "barrier1"]
    /\ waiting = [r \in Ranks |-> FALSE]
    /\ lyr = [r \in Ranks |-> 0]
    /\ served = [r \in Ranks |-> 0]
    /\ issued = [r \in Ranks |-> <<>>]

\* the statements that are blocking collectives, and the collective each is
CollectiveAt(pc) ==
    CASE pc = "barrier1" -> "barrier"
      [] pc = "barrier2" -> "barrier"
      [] pc = "embed" -> "embed_reduce"
      [] pc = "o_proj" -> "attn_reduce"
      [] pc = "mlp" -> "mlp_reduce"
      [] OTHER -> ""

\* a shard enters the collective its next statement performs
EnterCollective(r) ==
    /\ CollectiveAt(ppc[r]) # ""
    /\ ~waiting[r]
    /\ issued' = [issued EXCEPT ![r] = Append(@, CollectiveAt(ppc[r]))]
    /\ waiting' = [waiting EXCEPT ![r] = TRUE]
    /\ UNCHANGED <<loadVars, fwdVars, requests, ppc, lyr, served>>

\* the collective completes once every shard has entered it
LeaveCollective(r) ==
    /\ waiting[r]
    /\ \A o \in Ranks : Len(issued[o]) >= Len(issued[r])
    /\ waiting' = [waiting EXCEPT ![r] = FALSE]
    /\ ppc' = [ppc EXCEPT ![r] =
          CASE @ = "barrier1" -> "construct"
            [] @ = "barrier2" -> "idle"
            [] @ = "embed" -> "attention"
            [] @ = "o_proj" -> "mlp"
            [] OTHER -> IF lyr[r] < num_hidden_layers THEN "attention" ELSE "norm"]
    /\ lyr' = [lyr EXCEPT ![r] =
          IF ppc[r] = "embed" THEN 1
          ELSE IF ppc[r] = "mlp" /\ @ < num_hidden_layers THEN @ + 1
          ELSE @]
    /\ UNCHANGED <<loadVars, fwdVars, requests, served, issued>>

\* model = FlashShellForCausalLM(config, weights): every layer builds its
\* attention from the same configuration; an exception ends the process
ConstructModel(r) ==
    /\ ppc[r] = "construct"
    /\ attn' = [attn EXCEPT ![r] = AttentionInit(config, world_size, r)]
    /\ ppc' = [ppc EXCEPT ![r] =
          IF AttentionInit(config, world_size, r).status = "constructed"
          THEN "barrier2" ELSE "raised_in_init"]
    /\ UNCHANGED <<config, world_size, num_hidden_layers, fwdVars,
                   requests, waiting, lyr, served, issued>>

\* the shard receives the next forward call
BeginForward(r) ==
    /\ ppc[r] = "idle"
    /\ served[r] < Len(requests)
    /\ ppc' = [ppc EXCEPT ![r] = "embed"]
    /\ UNCHANGED <<loadVars, fwdVars, requests, waiting, lyr, served, issued>>

\* the layer's attention up to its output projection: local to the shard,
\* on either path; an exception ends the call
AttentionForward(r) ==
    /\ ppc[r] = "attention"
    /\ ppc' = [ppc EXCEPT ![r] =
          IF QKVOutcome(attn[r], config.hidden_size) = "ok"
          THEN "o_proj" ELSE "raised_in_forward"]
    /\ UNCHANGED <<loadVars, fwdVars, requests, waiting, lyr, served, issued>>

\* hidden_states, _ = self.norm(hidden_states, residual); return
FinishForward(r) ==
    /\ ppc[r] = "norm"
    /\ ppc' = [ppc EXCEPT ![r] = "idle"]
    /\ served' = [served EXCEPT ![r] = @ + 1]
    /\ lyr' = [lyr EXCEPT ![r] = 0]
    /\ UNCHANGED <<loadVars, fwdVars, requests, waiting, issued>>

NextColl ==
    \/ \E r \in Ranks : EnterCollective(r)
    \/ \E r \in Ranks : LeaveCollective(r)
    \/ \E r \in Ranks : ConstructModel(r)
    \/ \E r \in Ranks : BeginForward(r)
    \/ \E r \in Ranks : AttentionForward(r)
    \/ \E r \in Ranks : FinishForward(r)

SpecColl == InitColl /\ [][NextColl]_vars

(***************************************************************************)
(* Properties of SpecColl.                                                 *)
(***************************************************************************)
RECURSIVE Repeat(_, _)
Repeat(seq, n) == IF n <= 0 THEN <<>> ELSE seq \o Repeat(seq, n - 1)

\* the collectives of a shard that served `calls` forward calls
Collectives(calls) ==
    <<"barrier", "barrier">>
    \o Repeat(<<"embed_reduce">>
              \o Repeat(<<"attn_reduce", "mlp_reduce">>, num_hidden_layers),
              calls)

IsPrefix(a, b) == Len(a) <= Len(b) /\ a = SubSeq(b, 1, Len(a))

\* Every shard enters the same collectives in the same order, whatever its
\* rank and whatever the kind of each call, and no shard is ever more than
\* one collective ahead of another.
CollectivesInLockstep ==
    \A r \in Ranks :
        /\ IsPrefix(issued[r], Collectives(Len(requests)))
        /\ ppc[r] = "idle" => issued[r] = Collectives(served[r])
        /\ \A o \in Ranks : Len(issued[r]) <= Len(issued[o]) + 1

\* C9 as claimed: every shard issues the two construction barriers and then,
\* per forward call, the embedding reduction and each layer's attention and
\* feed-forward reductions, independently of rank and call kind, so that
\* every forward call a shard begins completes on all shards.
C9_EveryForwardCompletes ==
    /\ CollectivesInLockstep
    /\ \A r \in Ranks : ppc[r] # "raised_in_forward"

=============================================================================
